---- MODULE Spec2Model ----
(***************************************************************************)
(* Model of src/app.js: an express application over one sqlite3 database   *)
(* with the tables tasks and task_relationships.                           *)
(*                                                                         *)
(* A request handler runs to completion on the event loop; every db.run /  *)
(* db.all it issues executes later, as a step of its own, and its callback *)
(* runs with the statement's outcome.  A handler whose first statement is  *)
(* its only input to the store (POST, PUT /tasks/:id, DELETE, GET) is      *)
(* modelled as one step together with that statement; the statements that  *)
(* a handler leaves behind (the relationship insert of POST /tasks, the    *)
(* position updates of PUT /tasks/reorder) are separate steps that other   *)
(* requests interleave with, in any order.  Any statement may fail at the   *)
(* store (the err argument of its callback): that is the input err below.  *)
(*                                                                         *)
(* Values of the JSON body are written as their JSON text ("true", "2",    *)
(* "\"a\""), with "undefined" for an absent key.  The columns description  *)
(* and created_at are written once and never read by a handler's logic;    *)
(* they are left out of the rows.                                          *)
(***************************************************************************)
EXTENDS Integers, Sequences, FiniteSets, TLC

\* Bounds of the model.
MaxTasks == 3      \* rows ever inserted into tasks (ids 1..MaxTasks)
InitTasks == 2     \* rows the tasks table may hold when the server starts
MaxReq == 3        \* requests handled
MaxList == 2       \* ids in parentTasks and childTasks of a POST body, together
MaxOrder == 3      \* ids in the tasks of a PUT /tasks/reorder body
Few == 1           \* the bound of what a specification keeps small
MaxCreates == 2    \* POST /tasks requests in flight at once
MaxReorders == 1   \* PUT /tasks/reorder requests with updates in flight at once

VARIABLES
  tasks,      \* table tasks: id -> [title, done, position]
  rels,       \* table task_relationships: set of <<parent_id, child_id>>
  lastID,     \* sqlite_sequence of tasks (AUTOINCREMENT): greatest id ever used
  creates,    \* POST /tasks requests whose relationship insert is queued
  updates,    \* UPDATE statements queued by PUT /tasks/reorder
  reorders,   \* per reorder request with updates in flight, and for the one
              \* answered last: the status answered, and errorOccurred
  resp,       \* the response sent last, with the request it answers
  nreq,       \* requests received
  nresp,      \* responses sent
  quiet       \* the reorder of distinct existing ids answered 200 that no other
              \* write followed: its request and its list (rid 0: there is none)

vars == <<tasks, rels, lastID, creates, updates, reorders, resp, nreq, nresp, quiet>>

Ids == 1..MaxTasks

\* The database is opened and the schema created without PRAGMA foreign_keys = ON,
\* so SQLite parses the FOREIGN KEY ... ON DELETE CASCADE clauses and does not
\* enforce them (its default).
foreign_keys == FALSE

Range(s) == {s[i] : i \in DOMAIN s}

Min(S) == CHOOSE m \in S : \A x \in S : m <= x

Max(S) == CHOOSE m \in S : \A x \in S : m >= x

\* The lists of at most n ids.
IdLists(n) == UNION {[1..m -> Ids] : m \in 0..n}

\* The parentTasks and childTasks of a POST /tasks body, of at most n ids
\* together.
RelLists(n) ==
  {pc \in IdLists(n) \X IdLists(n) : Len(pc[1]) + Len(pc[2]) <= n}

Titles == {"undefined", "\"\"", "\"a\""}

DoneValues == {"undefined", "true", "false", "0", "1", "2", "\"true\""}

-----------------------------------------------------------------------------
\* JavaScript coercions used by the handlers.

\* ToBoolean of a body value: !title, done ? 1 : 0
Truthy(v) == v \notin {"undefined", "null", "false", "0", "\"\""}

\* done == 1 (loose equality with the number 1)
LooseEqualsOne(v) == v \in {"true", "1", "\"1\""}

-----------------------------------------------------------------------------
\* GET /tasks: GROUP_CONCAT(DISTINCT ...) makes a text of the ids, the handler
\* splits it at "," and converts every piece with Number.

Digit(d) == <<"0", "1", "2", "3", "4", "5", "6", "7", "8", "9">>[d + 1]

DigitValue(c) == CHOOSE d \in 0..9 : Digit(d) = c

RECURSIVE IntToText(_)
IntToText(n) == IF n < 10 THEN <<Digit(n)>>
                ELSE IntToText(n \div 10) \o <<Digit(n % 10)>>

RECURSIVE SortedSeq(_)
SortedSeq(S) == IF S = {} THEN <<>>
                ELSE LET m == Min(S) IN <<m>> \o SortedSeq(S \ {m})

RECURSIVE JoinTexts(_)
JoinTexts(ts) == IF Len(ts) = 1 THEN ts[1]
                 ELSE ts[1] \o <<",">> \o JoinTexts(Tail(ts))

\* GROUP_CONCAT(DISTINCT x) over the non-NULL values S of a group: NULL when
\* there is none, else their texts joined by ",".
GroupConcat(S) ==
  IF S = {} THEN [null |-> TRUE, text |-> <<>>]
  ELSE LET ids == SortedSeq(S)
       IN [null |-> FALSE,
           text |-> JoinTexts([i \in DOMAIN ids |-> IntToText(ids[i])])]

\* String.prototype.split(","): the pieces between the commas.
RECURSIVE Split(_, _)
Split(text, piece) ==
  IF text = <<>> THEN <<piece>>
  ELSE IF Head(text) = "," THEN <<piece>> \o Split(Tail(text), <<>>)
  ELSE Split(Tail(text), piece \o <<Head(text)>>)

\* Number(piece) of a text of decimal digits (Number("") is 0).
RECURSIVE Number(_)
Number(piece) == IF piece = <<>> THEN 0
                 ELSE 10 * Number(SubSeq(piece, 1, Len(piece) - 1))
                      + DigitValue(piece[Len(piece)])

\* task.child_tasks ? task.child_tasks.split(",").map(Number) : []
IdArray(col) ==
  IF col.null \/ col.text = <<>> THEN <<>>
  ELSE LET pieces == Split(col.text, <<>>)
       IN [i \in DOMAIN pieces |-> Number(pieces[i])]

\* The row GET /tasks returns for task t: the LEFT JOINs pair t with the rows
\* where it is the parent (pr) and with the rows where it is the child (cr).
Row(T, R, t) ==
  [id |-> t, title |-> T[t].title, done |-> T[t].done, position |-> T[t].position,
   child_tasks |-> IdArray(GroupConcat({r[2] : r \in {x \in R : x[1] = t}})),
   parent_tasks |-> IdArray(GroupConcat({r[1] : r \in {x \in R : x[2] = t}}))]

\* ORDER BY t.position: every order of the ids in which positions do not
\* decrease (rows of equal position come in an order SQLite does not fix).
ListOrders(T) ==
  LET D == DOMAIN T
      n == Cardinality(D)
  IN {s \in [1..n -> D] :
        /\ \A i, j \in 1..n : i # j => s[i] # s[j]
        /\ \A i, j \in 1..n : i < j => T[s[i]].position <= T[s[j]].position}

List(T, R, order) == [i \in DOMAIN order |-> Row(T, R, order[i])]

-----------------------------------------------------------------------------
\* POST /tasks

\* The guard with a test for an absent key only: an empty title passes.
TitleAbsent(title) == title = "undefined"

\* if (!title)
TitleMissing(title) == ~Truthy(title)

\* The position taken from the number of rows, COUNT(*), instead.
NextPositionCount(T) == Cardinality(DOMAIN T)

\* COALESCE(MAX(position) + 1, 0) FROM tasks
NextPosition(T) ==
  IF DOMAIN T = {} THEN 0
  ELSE Max({T[t].position : t \in DOMAIN T}) + 1

\* The relationships with parent_id and child_id the other way round.
RelationshipsSwapped(taskId, parentTasks, childTasks) ==
  [i \in DOMAIN parentTasks |-> <<taskId, parentTasks[i]>>]
  \o [i \in DOMAIN childTasks |-> <<childTasks[i], taskId>>]

\* relationships = [...parentTasks.map(...), ...childTasks.map(...)]
Relationships(taskId, parentTasks, childTasks) ==
  [i \in DOMAIN parentTasks |-> <<parentTasks[i], taskId>>]
  \o [i \in DOMAIN childTasks |-> <<taskId, childTasks[i]>>]

\* Whether the multi-row INSERT INTO task_relationships is rejected by a
\* constraint: PRIMARY KEY (parent_id, child_id), and the foreign keys when
\* they are enforced.
ConstraintFails(T, R, rows) ==
  \/ \E i, j \in DOMAIN rows : i # j /\ rows[i] = rows[j]
  \/ \E i \in DOMAIN rows : rows[i] \in R
  \/ foreign_keys /\ \E i \in DOMAIN rows :
        rows[i][1] \notin DOMAIN T \/ rows[i][2] \notin DOMAIN T

\* The INSERT as a statement that keeps the rows it wrote before it failed.
InsertRelationshipsPartial(R, rows, fails) ==
  IF fails THEN R \cup {rows[1]} ELSE R \cup Range(rows)

\* The table after the INSERT statement: a statement that fails leaves no
\* row behind (SQLite backs out the statement).
InsertRelationships(R, rows, fails) ==
  IF fails THEN R ELSE R \cup Range(rows)

-----------------------------------------------------------------------------
\* PUT /tasks/:id and DELETE /tasks/:id

\* this.changes of UPDATE/DELETE ... WHERE id = ?
Changes(T, id) == IF id \in DOMAIN T THEN 1 ELSE 0

\* The callback without its test of this.changes.
StatusOfNoChangesTest(err, changes) == IF err THEN 500 ELSE 200

\* if (err) 500; if (this.changes === 0) 404; else 200
StatusOf(err, changes) ==
  IF err THEN 500 ELSE IF changes = 0 THEN 404 ELSE 200

\* `${done == 1 ? 'Selesai' : 'Belum Selesai'}`
Label(done) == IF LooseEqualsOne(done) THEN "Selesai" ELSE "Belum Selesai"

\* DELETE FROM tasks WHERE id = ?
DeleteTask(T, id) == [t \in DOMAIN T \ {id} |-> T[t]]

\* The relationship rows left by deleting task id: ON DELETE CASCADE removes
\* the rows that reference it when foreign keys are enforced.
DeleteCascade(R, id) ==
  IF foreign_keys THEN {r \in R : r[1] # id /\ r[2] # id} ELSE R

-----------------------------------------------------------------------------
\* A response, with what identifies the request it answers (the id of the
\* task or of the reorder request, the title and the lengths of parentTasks
\* and childTasks of a POST body) and whether the store reported an error.
NoResp == [op |-> "none", status |-> 0, id |-> 0, err |-> FALSE, title |-> "undefined",
           label |-> "", nparents |-> 0, nchildren |-> 0, body |-> <<>>]

NotQuiet == [rid |-> 0, list |-> <<>>]

\* The server starts on ./tasks.db as an earlier run left it: here without
\* rows, or with the rows that k POST /tasks requests without relationships
\* leave.
Init ==
  /\ \E k \in 0..InitTasks :
        /\ tasks = [t \in 1..k |-> [title |-> "\"a\"", done |-> 0, position |-> t - 1]]
        /\ lastID = k
  /\ rels = {}
  /\ creates = {}
  /\ updates = {}
  /\ reorders = <<>>
  /\ resp = NoResp
  /\ nreq = 0
  /\ nresp = 0
  /\ quiet = NotQuiet

\* GET /tasks
Get(err) ==
  /\ nreq < MaxReq
  /\ nreq' = nreq + 1
  /\ nresp' = nresp + 1
  /\ IF err
     THEN resp' = [NoResp EXCEPT !.op = "list", !.status = 500, !.err = TRUE]
     ELSE \E order \in ListOrders(tasks) :
            resp' = [NoResp EXCEPT !.op = "list", !.status = 200,
                       !.body = List(tasks, rels, order)]
  /\ UNCHANGED <<tasks, rels, lastID, creates, updates, reorders, quiet>>

\* POST /tasks without a title: 400, nothing is sent to the store.
CreateReject(title, parentTasks, childTasks) ==
  /\ nreq < MaxReq
  /\ TitleMissing(title)
  /\ resp' = [NoResp EXCEPT !.op = "create", !.status = 400, !.title = title,
                !.nparents = Len(parentTasks), !.nchildren = Len(childTasks)]
  /\ nreq' = nreq + 1
  /\ nresp' = nresp + 1
  /\ UNCHANGED <<tasks, rels, lastID, creates, updates, reorders, quiet>>

\* POST /tasks with a title, up to the callback of the INSERT INTO tasks.
CreateInsert(title, parentTasks, childTasks, err, ncreate) ==
  /\ nreq < MaxReq
  /\ lastID < MaxTasks
  /\ Cardinality(creates) < ncreate
  /\ ~TitleMissing(title)
  /\ nreq' = nreq + 1
  /\ quiet' = NotQuiet
  /\ UNCHANGED <<rels, updates, reorders>>
  /\ IF err
     THEN /\ resp' = [NoResp EXCEPT !.op = "create", !.status = 500, !.err = TRUE,
                        !.title = title,
                        !.nparents = Len(parentTasks),
                        !.nchildren = Len(childTasks)]
          /\ nresp' = nresp + 1
          /\ UNCHANGED <<tasks, lastID, creates>>
     ELSE LET taskId == lastID + 1
              relationships == Relationships(taskId, parentTasks, childTasks)
          IN /\ lastID' = taskId
             /\ tasks' = [t \in DOMAIN tasks \cup {taskId} |->
                            IF t = taskId
                            THEN [title |-> title, done |-> 0,
                                  position |-> NextPosition(tasks)]
                            ELSE tasks[t]]
             /\ IF Len(relationships) > 0
                THEN /\ creates' = creates \cup
                          {[id |-> taskId, title |-> title,
                            parentTasks |-> parentTasks, childTasks |-> childTasks]}
                     /\ UNCHANGED <<resp, nresp>>
                ELSE /\ resp' = [NoResp EXCEPT !.op = "create", !.status = 200,
                                   !.id = taskId, !.title = title]
                     /\ nresp' = nresp + 1
                     /\ UNCHANGED creates

\* The queued INSERT INTO task_relationships of a POST /tasks in flight, c,
\* and its callback.
CreateRelInsert(err) ==
  \E c \in creates :
  /\ LET rows == Relationships(c.id, c.parentTasks, c.childTasks)
         fails == err \/ ConstraintFails(tasks, rels, rows)
     IN /\ rels' = InsertRelationships(rels, rows, fails)
        /\ resp' = [NoResp EXCEPT !.op = "create",
                      !.status = IF fails THEN 500 ELSE 200,
                      !.err = fails, !.id = c.id, !.title = c.title,
                      !.nparents = Len(c.parentTasks),
                      !.nchildren = Len(c.childTasks)]
  /\ creates' = creates \ {c}
  /\ nresp' = nresp + 1
  /\ quiet' = NotQuiet
  /\ UNCHANGED <<tasks, lastID, updates, reorders, nreq>>

\* PUT /tasks/reorder whose body has no array tasks: 400.
ReorderReject ==
  /\ nreq < MaxReq
  /\ nreq' = nreq + 1
  /\ nresp' = nresp + 1
  /\ resp' = [NoResp EXCEPT !.op = "reorder", !.status = 400]
  /\ UNCHANGED <<tasks, rels, lastID, creates, updates, reorders, quiet>>

\* PUT /tasks/reorder with an array: the handler queues one UPDATE per entry
\* (position = its index, from 0) and then answers from errorOccurred, which
\* no callback has had the chance to set.
Reorder(list) ==
  /\ nreq < MaxReq
  /\ Cardinality({u.rid : u \in updates}) < MaxReorders
  /\ LET rid == nreq + 1
         errorOccurred == FALSE
         status == IF errorOccurred THEN 500 ELSE 200
     IN /\ nreq' = rid
        /\ updates' = updates \cup
              {[rid |-> rid, index |-> i - 1, taskId |-> list[i]] : i \in DOMAIN list}
        /\ reorders' = [r \in {u.rid : u \in updates} \cup {rid} |->
                          IF r = rid
                          THEN [status |-> status, errorOccurred |-> errorOccurred]
                          ELSE reorders[r]]
        /\ resp' = [NoResp EXCEPT !.op = "reorder", !.status = status, !.id = rid]
        /\ quiet' = IF /\ status = 200
                       /\ \A i, j \in DOMAIN list : i # j => list[i] # list[j]
                       /\ Range(list) \subseteq DOMAIN tasks
                    THEN [rid |-> rid, list |-> list] ELSE NotQuiet
  /\ nresp' = nresp + 1
  /\ UNCHANGED <<tasks, rels, lastID, creates>>

\* A queued UPDATE tasks SET position = ? WHERE id = ?, u, and its callback.
\* The statements that db.run has queued run in no fixed order (the database
\* is not in serialized mode).
ReorderUpdate(err) ==
  \E u \in updates :
  /\ updates' = updates \ {u}
  /\ IF err
     THEN /\ reorders' = [reorders EXCEPT ![u.rid].errorOccurred = TRUE]
          /\ UNCHANGED tasks
     ELSE /\ tasks' = [t \in DOMAIN tasks |->
                         IF t = u.taskId THEN [tasks[t] EXCEPT !.position = u.index]
                         ELSE tasks[t]]
          /\ UNCHANGED reorders
  /\ quiet' = IF u.rid = quiet.rid THEN quiet ELSE NotQuiet
  /\ UNCHANGED <<rels, lastID, creates, resp, nreq, nresp>>

\* PUT /tasks/:id
SetDone(id, done, err) ==
  /\ nreq < MaxReq
  /\ nreq' = nreq + 1
  /\ nresp' = nresp + 1
  /\ quiet' = NotQuiet
  /\ LET status == StatusOf(err, Changes(tasks, id))
     IN /\ tasks' = IF err THEN tasks
                    ELSE [t \in DOMAIN tasks |->
                            IF t = id
                            THEN [tasks[t] EXCEPT !.done = IF Truthy(done) THEN 1 ELSE 0]
                            ELSE tasks[t]]
        /\ resp' = [NoResp EXCEPT !.op = "setdone", !.status = status, !.id = id,
                      !.err = err,
                      !.label = IF status = 200 THEN Label(done) ELSE ""]
  /\ UNCHANGED <<rels, lastID, creates, updates, reorders>>

\* DELETE /tasks/:id
Delete(id, err) ==
  /\ nreq < MaxReq
  /\ nreq' = nreq + 1
  /\ nresp' = nresp + 1
  /\ quiet' = NotQuiet
  /\ tasks' = IF err THEN tasks ELSE DeleteTask(tasks, id)
  /\ rels' = IF err \/ Changes(tasks, id) = 0 THEN rels ELSE DeleteCascade(rels, id)
  /\ resp' = [NoResp EXCEPT !.op = "delete", !.id = id, !.err = err,
                !.status = StatusOf(err, Changes(tasks, id))]
  /\ UNCHANGED <<lastID, creates, updates, reorders>>

\* Every step of the program, with at most nrel ids in the parentTasks and
\* childTasks of a POST /tasks body, at most nord in the tasks of a
\* PUT /tasks/reorder body, and at most ncreate POST /tasks in flight.
Step(nrel, nord, ncreate) ==
  \/ \E err \in BOOLEAN : Get(err)
  \/ \E title \in Titles, pc \in RelLists(nrel) :
        CreateReject(title, pc[1], pc[2])
  \/ \E title \in Titles, pc \in RelLists(nrel), err \in BOOLEAN :
        CreateInsert(title, pc[1], pc[2], err, ncreate)
  \/ \E err \in BOOLEAN : CreateRelInsert(err)
  \/ ReorderReject
  \/ \E list \in IdLists(nord) : Reorder(list)
  \/ \E err \in BOOLEAN : ReorderUpdate(err)
  \/ \E id \in Ids, done \in DoneValues, err \in BOOLEAN : SetDone(id, done, err)
  \/ \E id \in Ids, err \in BOOLEAN : Delete(id, err)

\* Requests with relationship lists in full, short reorder lists and one
\* POST /tasks in flight.
Next == Step(MaxList, Few, Few)

Spec == Init /\ [][Next]_vars

\* Requests with reorder lists in full, short relationship lists and
\* concurrent POST /tasks.
NextOrder == Step(Few, MaxOrder, MaxCreates)

SpecOrder == Init /\ [][NextOrder]_vars
-----------------------------------------------------------------------------
\* What a GET /tasks answered in the current state shows.

\* The ids in the child_tasks and in the parent_tasks of task t's row.
ChildTasks(T, R, t) == Range(Row(T, R, t).child_tasks)

ParentTasks(T, R, t) == Range(Row(T, R, t).parent_tasks)

\* Whether id a comes before id b in a listing order.
Before(order, a, b) ==
  \E i, j \in DOMAIN order : i < j /\ order[i] = a /\ order[j] = b

NoTitle == {"undefined", "\"\""}

-----------------------------------------------------------------------------
\* C1: once DELETE /tasks/:id has answered 200 for task d, a GET /tasks shows
\* no task whose child_tasks or parent_tasks contains d (stated for the GET
\* that follows the delete at once).
C1_DeleteRemovesRelationships ==
  [][ (nresp' = nresp + 1 /\ resp'.op = "delete" /\ resp'.status = 200)
      => \A t \in DOMAIN tasks' :
            /\ resp'.id \notin ChildTasks(tasks', rels', t)
            /\ resp'.id \notin ParentTasks(tasks', rels', t) ]_vars

\* C2: a successful POST /tasks inserts its row with position 0 into an empty
\* table, and else with the greatest position of the rows in the table plus
\* 1, which is the position of no row in the table, the rows of the POST
\* requests still in flight included.
C2_PositionIsMaxPlusOne ==
  [][ \A n \in DOMAIN tasks' \ DOMAIN tasks :
        IF DOMAIN tasks = {}
        THEN tasks'[n].position = 0
        ELSE /\ \E t \in DOMAIN tasks : tasks'[n].position = tasks[t].position + 1
             /\ \A t \in DOMAIN tasks : tasks[t].position < tasks'[n].position ]_vars

\* Two POST /tasks in flight at once, their rows in the table, the later one
\* inserted after a delete or a reorder moved the greatest position.
C2_Witness ==
  /\ Cardinality(creates) = 2
  /\ \A c \in creates : c.id \in DOMAIN tasks
  /\ \E c \in creates : tasks[c.id].position # c.id - 1
  /\ \E c, d \in creates : tasks[d.id].position = tasks[c.id].position + 1

\* C3: once PUT /tasks/reorder with a list of distinct ids of existing tasks
\* has been answered 200, its updates have run and no other write came, a
\* GET /tasks shows the tasks of the list in the order of the list.
C3_ReorderIsListed ==
  (quiet.rid # 0 /\ \A u \in updates : u.rid # quiet.rid)
  => \A order \in ListOrders(tasks) :
       \A i, j \in DOMAIN quiet.list :
         i < j => Before(order, quiet.list[i], quiet.list[j])

C5_LabelAgreesWithDone ==
  [][ (nresp' = nresp + 1 /\ resp'.op = "setdone" /\ resp'.status = 200)
      => LET done == Row(tasks', rels', resp'.id).done
         IN /\ resp'.label = "Selesai" <=> done = 1
            /\ resp'.label = "Belum Selesai" <=> done = 0 ]_vars

\* C6: a PUT /tasks/reorder one of whose updates failed at the store has been
\* answered 500; it has been answered 200 only when no update failed.
C6_FailedUpdateIs500 ==
  \A rid \in DOMAIN reorders :
    reorders[rid].errorOccurred => reorders[rid].status = 500

\* C7: DELETE /tasks/:id and PUT /tasks/:id for an id that matches no task
\* answer 404 and leave both tables as they are.
C7_NoMatchIs404 ==
  [][ (/\ nresp' = nresp + 1
       /\ resp'.op \in {"delete", "setdone"}
       /\ resp'.id \notin DOMAIN tasks)
      => /\ resp'.status = 404
         /\ tasks' = tasks /\ rels' = rels ]_vars

\* C7 as amended: they answer 404, or 500 when the store reports an error for
\* the statement, never 200, and leave both tables as they are.
C7_NoMatchIs404UnlessStoreError ==
  [][ (/\ nresp' = nresp + 1
       /\ resp'.op \in {"delete", "setdone"}
       /\ resp'.id \notin DOMAIN tasks)
      => /\ resp'.status = IF resp'.err THEN 500 ELSE 404
         /\ tasks' = tasks /\ rels' = rels ]_vars

\* A DELETE answered 404 for a task that an earlier request deleted.
C7_Witness ==
  /\ resp.op = "delete" /\ resp.status = 404
  /\ resp.id <= lastID /\ resp.id \notin DOMAIN tasks

\* C8: POST /tasks with an absent or empty title answers 400 and stores
\* nothing: no row of tasks, no row of task_relationships, no statement left
\* in flight.
C8_NoTitleIs400 ==
  [][ (nresp' = nresp + 1 /\ resp'.op = "create" /\ resp'.title \in NoTitle)
      => /\ resp'.status = 400
         /\ tasks' = tasks /\ rels' = rels /\ lastID' = lastID
         /\ creates' = creates /\ updates' = updates ]_vars

\* A POST /tasks without title and with relationship ids, answered 400 while
\* the table holds tasks.
C8_Witness ==
  /\ resp.op = "create" /\ resp.status = 400 /\ resp.title \in NoTitle
  /\ resp.nparents + resp.nchildren > 0
  /\ DOMAIN tasks # {}

\* C9: every row of task_relationships has a parent_id and a child_id that
\* are ids of rows of tasks.
C9_RelationshipsReferToTasks ==
  \A r \in rels : r[1] \in DOMAIN tasks /\ r[2] \in DOMAIN tasks

\* C10: when the relationship insert of a POST /tasks fails (as it does when
\* its rows repeat a pair or hold a pair already stored), the request gets one
\* response, a 500, no relationship row is stored, and the row of the new
\* task stays and is listed by GET /tasks.
C10_FailedRelationshipInsert ==
  [][ \A c \in creates \ creates' :
        LET pairs == {<<c.parentTasks[i], c.id>> : i \in DOMAIN c.parentTasks}
                     \cup {<<c.id, c.childTasks[i]>> : i \in DOMAIN c.childTasks}
            repeated == Cardinality(pairs) < Len(c.parentTasks) + Len(c.childTasks)
        IN /\ (repeated \/ pairs \cap rels # {}) => resp'.status = 500
           /\ resp'.status # 200 =>
                /\ resp'.status = 500 /\ resp'.id = c.id
                /\ nresp' = nresp + 1
                /\ rels' = rels
                /\ tasks' = tasks
                /\ c.id \in DOMAIN tasks =>
                     \A order \in ListOrders(tasks') : c.id \in Range(order) ]_vars

\* A POST /tasks with two parents whose relationship insert failed, answered
\* 500: its task is in the table and no relationship row refers to it.
C10_Witness ==
  /\ resp.op = "create" /\ resp.status = 500 /\ resp.nparents = 2
  /\ resp.id \in DOMAIN tasks
  /\ \A r \in rels : r[1] # resp.id /\ r[2] # resp.id
====
